---- MODULE Spec2Model ----
(***************************************************************************)
(* Federated query execution and scratch-store lifecycle of Text2Dash.     *)
(*                                                                         *)
(* The model follows backend/services/data_source_manager.py (the scratch  *)
(* store, the plan orchestrator, the session temp-table registry),         *)
(* database_connector.py / mcp_connector.py (the two source executors) and *)
(* report_service.py / executors/*.py (the report-generation paths that    *)
(* drive them).                                                            *)
(*                                                                         *)
(* Identifiers (session ids, aliases, table names) are sequences of        *)
(* one-character strings, so that str.replace, string concatenation and    *)
(* SQLite's LIKE / case-insensitive table lookup are computed character by *)
(* character as the code and SQLite compute them.                          *)
(*                                                                         *)
(* Six specifications share the state:                                     *)
(*   SpecApi  a caller drives the DataSourceManager methods directly, as   *)
(*            tests/test_session_temp_table.py and                         *)
(*            tests/test_data_source_manager.py do;                        *)
(*   SpecTyped  create_temp_tables is called on results whose values are   *)
(*            None, booleans, integers, floats and strings;                *)
(*   Spec     report generations drive it (ReportService.generate_report   *)
(*            and the executors), one generation in flight at a time, each *)
(*            step being the code between two suspension points;           *)
(*   SpecConcurrent  two requests are served at once by the one            *)
(*            DataSourceManager of the process;                            *)
(*   SpecConnect  several tool calls are in flight on the one MCPConnector;*)
(*   SpecPure the functions without state are applied to arguments drawn   *)
(*            from bounded sets.                                           *)
(***************************************************************************)
EXTENDS Integers, Sequences, FiniteSets, TLC

VARIABLES
    store,      \* the scratch SQLite file: folded table name -> table
    lastInfo,   \* DataSourceManager._last_temp_table_info
    ret,        \* what the last DataSourceManager call returned or raised
    saved,      \* SessionInteraction rows stored per session
    pending,    \* background _save_session_async tasks not yet run, per session
    ex,         \* the report generation in flight (SpecConcurrent: one per
                \* request; SpecConnect: one call_tool per caller)
    connections \* MCPConnector.connections, and the sessions opened and not closed

vars == <<store, lastInfo, ret, saved, pending, ex, connections>>

----------------------------------------------------------------------------
(* Bounds of the model *)

\* a source returns between 0 and MaxRows rows
MaxRows == 1
\* a direct caller passes interaction numbers 1..MaxCallerInteraction
MaxCallerInteraction == 1
\* a session accumulates at most MaxInteraction interactions
MaxInteraction == 2
\* a result with typed values has between 0 and MaxCells rows of one column
MaxCells == 2
\* a tool response that is a list has between 0 and MaxItems items
MaxItems == 3
\* a plan given to should_create_temp_table has up to MaxQueries sub-queries
MaxQueries == 2

----------------------------------------------------------------------------
(* Characters and strings *)

UpperCase == <<"A","B","C","D","E","F","G","H","I","J","K","L","M",
               "N","O","P","Q","R","S","T","U","V","W","X","Y","Z">>
LowerCase == <<"a","b","c","d","e","f","g","h","i","j","k","l","m",
               "n","o","p","q","r","s","t","u","v","w","x","y","z">>
Digits == <<"0","1","2","3","4","5","6","7","8","9">>

Range(f) == {f[i] : i \in DOMAIN f}

\* the characters of the model, in ASCII order
AsciiOrder == <<"%", "-", ".">> \o Digits \o UpperCase \o <<"_">> \o LowerCase
Alphabet == Range(AsciiOrder)
AlnumChars == Range(UpperCase) \cup Range(LowerCase) \cup Range(Digits)
DigitChars == Range(Digits)

\* str.isalnum on one ASCII character
IsAlnum(c) == c \in AlnumChars

\* ASCII lower-casing, which SQLite applies to table names and to LIKE
LowerOf ==
    [c \in Alphabet |->
        IF \E i \in DOMAIN UpperCase : UpperCase[i] = c
        THEN LowerCase[CHOOSE i \in DOMAIN UpperCase : UpperCase[i] = c]
        ELSE c]
Lower(c) == LowerOf[c]

Fold(s) == [i \in DOMAIN s |-> Lower(s[i])]

\* str(n) for a non-negative integer
RECURSIVE IntToStr(_)
IntToStr(n) ==
    IF n < 10 THEN <<Digits[n + 1]>>
    ELSE IntToStr(n \div 10) \o <<Digits[(n % 10) + 1]>>

\* the position of a character in ASCII order
CodeOf == [c \in Alphabet |-> CHOOSE i \in DOMAIN AsciiOrder : AsciiOrder[i] = c]
Code(c) == CodeOf[c]

\* s < t in SQLite's BINARY collation
RECURSIVE StrLess(_, _)
StrLess(s, t) ==
    IF t = <<>> THEN FALSE
    ELSE IF s = <<>> THEN TRUE
    ELSE IF Head(s) = Head(t) THEN StrLess(Tail(s), Tail(t))
    ELSE Code(Head(s)) < Code(Head(t))

\* ORDER BY name
RECURSIVE SortNames(_)
SortNames(S) ==
    IF S = {} THEN <<>>
    ELSE LET m == CHOOSE x \in S : \A y \in S \ {x} : StrLess(x, y)
         IN  <<m>> \o SortNames(S \ {m})

\* SQLite's  name LIKE pattern : '_' matches any one character, '%' any run of
\* characters, everything else matches ignoring ASCII case
RECURSIVE LikeMatch(_, _)
LikeMatch(p, s) ==
    IF p = <<>> THEN s = <<>>
    ELSE IF Head(p) = "%"
         THEN LikeMatch(Tail(p), s) \/ (s # <<>> /\ LikeMatch(p, Tail(s)))
    ELSE /\ s # <<>>
         /\ (Head(p) = "_" \/ Lower(Head(p)) = Lower(Head(s)))
         /\ LikeMatch(Tail(p), Tail(s))

\* a name SQLite accepts unquoted where the code interpolates it into a statement
IsSqlIdentifier(s) ==
    /\ s # <<>>
    /\ \A i \in DOMAIN s : IsAlnum(s[i]) \/ s[i] = "_"
    /\ Head(s) \notin DigitChars

----------------------------------------------------------------------------
(* Names *)

SessionPrefix == <<"s","e","s","s","i","o","n","_">>
TempPrefix == <<"t","e","m","p","_">>

\* session_id.replace('-', '_')
SafeSessionId(session_id) ==
    [i \in DOMAIN session_id |-> IF session_id[i] = "-" THEN "_" ELSE session_id[i]]

\* f"session_{safe_session_id}_interaction_{interaction_num}"
SessionTableName(session_id, interaction_num) ==
    SessionPrefix \o SafeSessionId(session_id) 
        \o <<"_","i","n","t","e","r","a","c","t","i","o","n","_">> \o IntToStr(interaction_num)

\* a pattern built from the identifier as given, without the replacement
SessionPatternUnsanitized(session_id) ==
    SessionPrefix \o session_id \o <<"_", "%">>

\* f"session_{safe_session_id}_%"
SessionPattern(session_id) ==
    SessionPrefix \o SafeSessionId(session_id) \o <<"_", "%">>

\* f"temp_{source_alias}"
TempTableName(source_alias) == TempPrefix \o source_alias

----------------------------------------------------------------------------
(* The scratch store: one SQLite file.  SQLite resolves a table name        *)
(* ignoring ASCII case, so the store is keyed by the folded name and keeps  *)
(* the name as written (sqlite_master.name) in the table.                   *)
(* A table has its columns with their declared types and its rows as       *)
(* SELECT * fetches them, in insertion order; `session` records the session *)
(* identifier create_session_temp_table was called with (the empty string   *)
(* for every other table).                                                  *)

EmptyStore == [k \in {} |-> 0]
NoSession == <<>>
NoName == <<>>

Table(name, cols, types, rows, session) ==
    [name |-> name, cols |-> cols, types |-> types, rows |-> rows, session |-> session]

TableExists(st, name) == Fold(name) \in DOMAIN st

DropTable(st, name) == [k \in DOMAIN st \ {Fold(name)} |-> st[k]]

PutTable(st, t) ==
    [k \in DOMAIN st \cup {Fold(t.name)} |-> IF k = Fold(t.name) THEN t ELSE st[k]]

\* SELECT name FROM sqlite_master WHERE type='table'
MasterNames(st) == {st[k].name : k \in DOMAIN st}

\* SELECT * FROM name
TableRows(st, name) == st[Fold(name)].rows

----------------------------------------------------------------------------
(* Values and rows.  A cell value is a Python value: its type and its text. *)
(* A numeric value keeps its numeral as text, whatever its type (1 and 1.0  *)
(* are both "1").  A row is a mapping from keys to values, as the drivers   *)
(* and the tool servers return it.                                          *)

Value(py, text) == [py |-> py, text |-> text]
PyNone == Value("NoneType", "")
PyBool(text) == Value("bool", text)
PyInt(text) == Value("int", text)
PyFloat(text) == Value("float", text)
PyStr(text) == Value("str", text)

\* the texts SQLite reads as a numeral: integers, and a numeral with a fraction
IntegerTexts == Range(Digits)
NumericTexts == IntegerTexts \cup {"1.5"}

\* a == b in Python exactly when PyNorm(a) = PyNorm(b): True == 1 == 1.0, and
\* a number equals no string
PyNorm(v) == IF v.py \in {"bool", "int", "float"} THEN Value("number", v.text) ELSE v

\* row_dict.get(col)
Get(row, col) == IF col \in DOMAIN row THEN row[col] ELSE PyNone

\* list(row.keys())
RECURSIVE ListOf(_)
ListOf(S) ==
    IF S = {} THEN <<>>
    ELSE LET x == CHOOSE y \in S : TRUE IN <<x>> \o ListOf(S \ {x})

\* the SQLite type names _create_table_from_data and create_session_temp_table
\* declare for a value
SqlTypeOf(value) ==
    IF value.py = "NoneType" THEN "TEXT"
    ELSE IF value.py = "bool" THEN "INTEGER"
    ELSE IF value.py = "int" THEN "INTEGER"
    ELSE IF value.py = "float" THEN "REAL"
    ELSE "TEXT"

\* sqlite3 binds a Python value to a storage class, SQLite applies the
\* affinity of the declared column type, and the value is fetched as the
\* Python value of the storage class it ended in
Stored(value, col_type) ==
    LET bound == IF value.py = "bool" THEN PyInt(value.text) ELSE value
    IN  IF bound.py = "NoneType" THEN bound
        ELSE IF col_type = "TEXT" THEN PyStr(bound.text)
        ELSE IF bound.text \notin NumericTexts THEN bound
        ELSE IF col_type = "REAL" THEN PyFloat(bound.text)
        ELSE IF bound.text \in IntegerTexts THEN PyInt(bound.text)
        ELSE PyFloat(bound.text)

\* the column names that can be written bare in a statement; "n(*)" (the name
\* an aggregate without alias gets) can be written only inside brackets
BareColumnNames == {"c", "d"}

(* Result sets.  In the report pipeline a source returns rows 1..k for some *)
(* k <= MaxRows, each row holding the integer under the one column "c".     *)

\* the value of a column in the first row alone
FirstRowValue(data, col) ==
    IF data = <<>> THEN PyNone ELSE Get(data[1], col)

\* the first value of a column that is not None, None if there is none
FirstValue(data, col) ==
    LET filled == {i \in DOMAIN data : Get(data[i], col) # PyNone}
    IN  IF filled = {} THEN PyNone
        ELSE Get(data[CHOOSE i \in filled : \A j \in filled : i <= j], col)

\* the rows an INSERT of `data` under `columns` leaves in a table whose columns
\* are declared with `types`, as they are fetched back
StoredRows(data, columns, types) ==
    [i \in DOMAIN data |->
        [col \in Range(columns) |-> Stored(Get(data[i], col), types[col])]]

RowKeys == <<"c">>
Row(col, value) == [k \in {col} |-> value]
RowChoices == {[i \in 1..k |-> Row("c", PyInt(Digits[i + 1]))] : k \in 0..MaxRows}
ResultSet(rows, cols) == [rows |-> rows, cols |-> cols]

Min(a, b) == IF a < b THEN a ELSE b

----------------------------------------------------------------------------
(* DataSourceManager: session temp tables *)

\* create_session_temp_table without its `if not data: return None`: the
\* existing table is dropped and a table is created for no rows as well
create_session_temp_table_unguarded(st, session_id, interaction_num, data, keys, columns) ==
    LET table_name == SessionTableName(session_id, interaction_num)
        cols == IF columns = <<>> THEN keys ELSE columns
        st1 == DropTable(st, table_name)
        types == [col \in Range(cols) |-> SqlTypeOf(FirstRowValue(data, col))]
    IN  IF ~IsSqlIdentifier(table_name) \/ cols = <<>>
           \/ ~(Range(cols) \subseteq BareColumnNames)
        THEN [store |-> st1, name |-> table_name, none |-> FALSE, raised |-> TRUE]
        ELSE [store |-> PutTable(st1, Table(table_name, cols, types,
                                            StoredRows(data, cols, types), session_id)),
              name |-> table_name, none |-> FALSE, raised |-> FALSE]

\* create_session_temp_table(session_id, interaction_num, data, columns):
\* `data` are the rows, `keys` the keys of data[0], `columns` the columns
\* argument (<<>> for None or an empty list).
create_session_temp_table(st, session_id, interaction_num, data, keys, columns) ==
    IF data = <<>>
    THEN [store |-> st, name |-> NoName, none |-> TRUE, raised |-> FALSE]
    ELSE
      LET table_name == SessionTableName(session_id, interaction_num)
          cols == IF columns = <<>> THEN keys ELSE columns
          \* SELECT name FROM sqlite_master WHERE ... name='{table_name}'; DROP TABLE
          st1 == IF table_name \in MasterNames(st) THEN DropTable(st, table_name) ELSE st
          \* the column types are those of the values of the first row
          types == [col \in Range(cols) |-> SqlTypeOf(Get(data[1], col))]
      IN  IF \/ ~IsSqlIdentifier(table_name) \/ TableExists(st1, table_name)
             \/ cols = <<>> \/ ~(Range(cols) \subseteq BareColumnNames)
          THEN \* CREATE TABLE (which names the columns bare) raises
               \* sqlite3.OperationalError, which is re-raised
               [store |-> st1, name |-> table_name, none |-> FALSE, raised |-> TRUE]
          ELSE [store |-> PutTable(st1, Table(table_name, cols, types,
                                              StoredRows(data, cols, types), session_id)),
                name |-> table_name, none |-> FALSE, raised |-> FALSE]

\* the tables the LIKE query of list/drop selects for a session
SessionMatches(st, session_id) ==
    {n \in MasterNames(st) : LikeMatch(SessionPattern(session_id), n)}

\* list_session_temp_tables(session_id)
list_session_temp_tables(st, session_id) == SortNames(SessionMatches(st, session_id))

\* drop_session_temp_tables(session_id)
drop_session_temp_tables(st, session_id) ==
    LET tables == SessionMatches(st, session_id)
    IN  [store |-> [k \in DOMAIN st \ {Fold(n) : n \in tables} |-> st[k]],
         count |-> Cardinality(tables)]

\* query_session_temp_table(table_name, limit, offset); limit 0 stands for None.
\* The outcome is what the caller sees: an exception of the statement is
\* caught and logged, and an empty list returned.
query_session_temp_table(st, table_name, limit, offset) ==
    IF ~IsSqlIdentifier(table_name) \/ ~TableExists(st, table_name)
    THEN [raised |-> FALSE, rows |-> <<>>]
    ELSE LET rows == TableRows(st, table_name)
         IN  [raised |-> FALSE,
              rows |-> IF limit # 0
                       THEN SubSeq(rows, offset + 1, Min(Len(rows), offset + limit))
                       ELSE rows]

\* a schema lookup that answers a schema without columns for a missing table
get_temp_table_schema_or_empty(st, table_name) ==
    IF table_name \notin MasterNames(st) \/ ~IsSqlIdentifier(table_name)
    THEN [raised |-> FALSE, none |-> FALSE, columns |-> <<>>, row_count |-> 0]
    ELSE LET t == st[Fold(table_name)]
         IN  [raised |-> FALSE, none |-> FALSE,
              columns |-> [i \in DOMAIN t.cols |->
                              [name |-> t.cols[i], type |-> t.types[t.cols[i]]]],
              row_count |-> Len(t.rows)]

\* get_temp_table_schema(table_name): None when sqlite_master has no table of
\* exactly that name, and None as well when a statement raises (the exception
\* is caught and logged)
get_temp_table_schema(st, table_name) ==
    IF table_name \notin MasterNames(st) \/ ~IsSqlIdentifier(table_name)
    THEN [raised |-> FALSE, none |-> TRUE, columns |-> <<>>, row_count |-> 0]
    ELSE LET t == st[Fold(table_name)]
         IN  [raised |-> FALSE, none |-> FALSE,
              columns |-> [i \in DOMAIN t.cols |->
                              [name |-> t.cols[i], type |-> t.types[t.cols[i]]]],
              row_count |-> Len(t.rows)]

----------------------------------------------------------------------------
(* DataSourceManager: combination tables *)

\* a table creation without the no-columns check: the table is created with
\* whatever columns it is given
create_table_unchecked(st, table_name, data, columns) ==
    [store |-> PutTable(DropTable(st, table_name),
                        Table(table_name, columns, [col \in Range(columns) |-> "TEXT"],
                              <<>>, NoSession)),
     raised |-> FALSE]

\* _create_table_from_data: DROP TABLE IF EXISTS, then the no-columns check,
\* then CREATE TABLE
\* (column names go in brackets), with the column types taken from the first
\* value of each column that is not None, TEXT without data
create_table_from_data(st, table_name, data, columns) ==
    LET column_types == [col \in Range(columns) |->
                            IF data = <<>> THEN "TEXT"
                            ELSE SqlTypeOf(FirstValue(data, col))]
    IN  IF ~IsSqlIdentifier(table_name)
        THEN [store |-> st, raised |-> TRUE]
        ELSE IF columns = <<>>
             THEN [store |-> DropTable(st, table_name), raised |-> TRUE]
             ELSE [store |-> PutTable(DropTable(st, table_name),
                                      Table(table_name, columns, column_types, <<>>,
                                            NoSession)),
                   raised |-> FALSE]

\* _insert_data_to_table: nothing without data; the INSERT names the columns
\* bare, and raises for a column name that cannot be written so
insert_data_to_table(st, table_name, data, columns) ==
    IF data = <<>> THEN [store |-> st, raised |-> FALSE]
    ELSE IF ~(Range(columns) \subseteq BareColumnNames)
    THEN [store |-> st, raised |-> TRUE]
    ELSE [store |-> [st EXCEPT ![Fold(table_name)].rows =
                        @ \o StoredRows(data, columns, st[Fold(table_name)].types)],
          raised |-> FALSE]

\* One source of create_temp_tables.  `acc` carries the connection: what is
\* committed on disk, what the open connection sees, whether an INSERT has
\* opened a transaction (sqlite3 commits DDL at once only while none is open),
\* and the table info collected so far.
MaterializeSource(acc, src) ==
    IF acc.raised THEN acc
    ELSE
      LET table_name == TempTableName(src.alias)
          made == create_table_from_data(acc.working, table_name, src.rows, src.cols)
          loaded == insert_data_to_table(made.store, table_name, src.rows, src.cols)
          entry == [source |-> src.alias, row_count |-> Len(src.rows)]
      IN  IF made.raised \/ loaded.raised
          THEN [acc EXCEPT !.raised = TRUE,
                           !.working = made.store,
                           !.committed = IF acc.inTxn THEN @ ELSE made.store]
          ELSE [committed |-> IF acc.inTxn THEN acc.committed ELSE made.store,
                working |-> loaded.store,
                inTxn |-> acc.inTxn \/ src.rows # <<>>,
                info |-> [n \in DOMAIN acc.info \cup {table_name} |->
                              IF n = table_name THEN entry ELSE acc.info[n]],
                raised |-> FALSE]

RECURSIVE MaterializeAll(_, _)
MaterializeAll(acc, srcs) ==
    IF srcs = <<>> THEN acc
    ELSE MaterializeAll(MaterializeSource(acc, Head(srcs)), Tail(srcs))

\* zip(db_results, sql_queries) followed by zip(mcp_results, mcp_calls)
ZipSources(results, calls) ==
    [i \in 1..Min(Len(results), Len(calls)) |->
        [alias |-> calls[i].alias, rows |-> results[i].rows, cols |-> results[i].cols]]

\* create_temp_tables(mcp_results, db_results, sql_queries, mcp_calls): the
\* store afterwards (after the final commit, or after the rollback that closing
\* the connection brings when a table could not be created), and the table info
create_temp_tables(st, mcp_results, db_results, sql_queries, mcp_calls) ==
    LET acc0 == [committed |-> st, working |-> st, inTxn |-> FALSE,
                 info |-> EmptyStore, raised |-> FALSE]
        acc == MaterializeAll(acc0, ZipSources(db_results, sql_queries)
                                     \o ZipSources(mcp_results, mcp_calls))
    IN  [store |-> IF acc.raised THEN acc.committed ELSE acc.working,
         info |-> acc.info,
         raised |-> acc.raised]

\* combine_data_with_sql(combination_sql).  The statement is modelled by the
\* tables it reads:  SELECT * FROM t1 UNION ALL SELECT * FROM t2 ...
combine_data_with_sql(st, combination_sql) ==
    IF \E i \in DOMAIN combination_sql :
           ~IsSqlIdentifier(combination_sql[i]) \/ ~TableExists(st, combination_sql[i])
    THEN [raised |-> TRUE, rows |-> <<>>, cols |-> <<>>]
    ELSE LET RECURSIVE Union(_)
             Union(ts) == IF ts = <<>> THEN <<>>
                          ELSE TableRows(st, Head(ts)) \o Union(Tail(ts))
         IN  [raised |-> FALSE,
              rows |-> Union(combination_sql),
              cols |-> IF combination_sql = <<>> THEN <<>>
                       ELSE st[Fold(Head(combination_sql))].cols]

\* a cleanup that leaves the scratch file in place
cleanup_kept(st) == st

\* cleanup_temp_tables(): os.remove(temp_db_path) removes the scratch file, and
\* with it every table of every execution and every session
cleanup_temp_tables(st) == EmptyStore

----------------------------------------------------------------------------
(* Inputs *)

\* session identifiers: a plain one, one with a hyphen, one with a dot
SessionIds == {<<"a">>, <<"a", "-", "b">>, <<"a", ".", "b">>}

\* source aliases of plans
AliasU == <<"u">>
AliasV == <<"v">>
AliasM == <<"m">>

DataMetadata(columns, column_types, row_count) ==
    [columns |-> columns, column_types |-> column_types, row_count |-> row_count]

\* a type inference that asks isinstance(value, int) before
\* isinstance(value, bool)
MetadataTypeIntFirst(value) ==
    IF value.py = "NoneType" THEN "NULL"
    ELSE IF value.py \in {"int", "bool"} THEN "INTEGER"
    ELSE IF value.py = "float" THEN "FLOAT"
    ELSE IF value.py = "str" THEN "TEXT"
    ELSE value.py

\* the type names get_combined_metadata and get_tool_metadata give a value
MetadataType(value) ==
    IF value.py = "NoneType" THEN "NULL"
    ELSE IF value.py = "bool" THEN "BOOLEAN"
    ELSE IF value.py \in {"int", "bool"} THEN "INTEGER"
    ELSE IF value.py = "float" THEN "FLOAT"
    ELSE IF value.py = "str" THEN "TEXT"
    ELSE value.py

\* get_tool_metadata: the columns are the keys of the first row, none when
\* the response is empty; the type of a column is that of its first value
\* that is not None
get_tool_metadata(data) ==
    IF data = <<>> THEN DataMetadata(<<>>, <<>>, 0)
    ELSE LET columns == ListOf(DOMAIN data[1])
         IN  DataMetadata(columns,
                          [col \in Range(columns) |-> MetadataType(FirstValue(data, col))],
                          Len(data))

\* get_combined_metadata(combined_data)
get_combined_metadata(combined_data) ==
    DataMetadata(combined_data.cols,
                 [col \in Range(combined_data.cols) |->
                     IF combined_data.rows = <<>> THEN "UNKNOWN"
                     ELSE MetadataType(FirstValue(combined_data.rows, col))],
                 Len(combined_data.rows))

\* an MCPResult: the (valid) response with the metadata call_tool attaches
McpResult(data) == ResultSet(data, get_tool_metadata(data).columns)

----------------------------------------------------------------------------
(* State *)

\* the outcome of the last state-changing DataSourceManager call
Ret(op, session, name, count, raised, none) ==
    [op |-> op, session |-> session, name |-> name,
     count |-> count, raised |-> raised, none |-> none]

NoRet == Ret("", NoSession, NoName, 0, FALSE, FALSE)

Idle == [pc |-> "idle"]

\* no connection cached, no session open
NoConnections == [cached |-> EmptyStore, open |-> {}]

Init ==
    /\ store = EmptyStore
    /\ lastInfo = EmptyStore
    /\ ret = NoRet
    /\ saved = [s \in SessionIds |-> 0]
    /\ pending = [s \in SessionIds |-> 0]
    /\ connections = NoConnections
    /\ ex = Idle

----------------------------------------------------------------------------
(* SpecApi: the state-changing DataSourceManager methods called directly.   *)
(* The read-only methods (list_session_temp_tables,                         *)
(* query_session_temp_table, combine_data_with_sql) are the operators       *)
(* above, applied to the store of the state they are called in.             *)

ApiCreateSessionTempTable ==
    \E s \in SessionIds, n \in 1..MaxCallerInteraction, data \in RowChoices :
        LET r == create_session_temp_table(store, s, n, data, RowKeys, <<>>)
        IN  /\ store' = r.store
            /\ ret' = Ret("create_session_temp_table", s, r.name, 0, r.raised, r.none)
            /\ UNCHANGED <<lastInfo, saved, pending, ex, connections>>

ApiDropSessionTempTables ==
    \E s \in SessionIds :
        LET r == drop_session_temp_tables(store, s)
        IN  /\ store' = r.store
            /\ ret' = Ret("drop_session_temp_tables", s, NoName, r.count, FALSE, FALSE)
            /\ UNCHANGED <<lastInfo, saved, pending, ex, connections>>

ApiCreateTempTables ==
    \E dbs \in {<<>>, <<ResultSet(<<>>, <<>>)>>}
                   \cup {<<ResultSet(r, RowKeys)>> : r \in RowChoices},
       mcps \in {<<>>} \cup {<<McpResult(r)>> : r \in RowChoices} :
        /\ dbs \o mcps # <<>>
        /\ LET r == create_temp_tables(store, mcps, dbs,
                                       <<[alias |-> AliasU]>>, <<[alias |-> AliasM]>>)
           IN  /\ store' = r.store
               /\ ret' = Ret("create_temp_tables", NoSession, NoName, 0, r.raised, FALSE)
        /\ UNCHANGED <<lastInfo, saved, pending, ex, connections>>

\* cleanup_temp_tables(): os.remove(temp_db_path), then the cached info is reset
ApiCleanupTempTables ==
    /\ store' = cleanup_temp_tables(store)
    /\ lastInfo' = EmptyStore
    /\ ret' = Ret("cleanup_temp_tables", NoSession, NoName, 0, FALSE, FALSE)
    /\ UNCHANGED <<saved, pending, ex, connections>>

\* SessionManager.delete_session(session_id): the snapshots, the interactions
\* and the session row are deleted from the application database, and the
\* memories of the session; the DataSourceManager is not called
ApiDeleteSession ==
    \E s \in SessionIds :
        /\ saved' = [saved EXCEPT ![s] = 0]
        /\ ret' = Ret("delete_session", s, NoName, 0, FALSE, FALSE)
        /\ UNCHANGED <<store, lastInfo, pending, ex, connections>>

NextApi ==
    \/ ApiCreateSessionTempTable
    \/ ApiDropSessionTempTables
    \/ ApiDeleteSession
    \/ ApiCreateTempTables
    \/ ApiCleanupTempTables

SpecApi == Init /\ [][NextApi]_vars

----------------------------------------------------------------------------
(* SpecTyped: create_temp_tables called with one result whose column holds *)
(* values of any type, as tests/test_data_source_manager.py calls it with   *)
(* hand-made results.                                                       *)

\* the values a cell may hold
TypedValues ==
    {PyNone, PyBool("1"), PyInt("1"), PyFloat("1.5"), PyStr("1"), PyStr("x")}

\* the results of up to MaxCells rows over one column
TypedData(col) ==
    UNION {[1..n -> {Row(col, v) : v \in TypedValues}] : n \in 0..MaxCells}

\* create_temp_tables with one relational result, or with one tool result
\* (whose columns are those of its metadata); `ret` keeps what the call was
\* given and whether it raised
TypedCreateTempTables ==
    \E kind \in {"db", "mcp"}, col \in {"c", "n(*)"} :
      \E data \in TypedData(col) :
        LET result == IF kind = "db" THEN ResultSet(data, <<col>>) ELSE McpResult(data)
            r == IF kind = "db"
                 THEN create_temp_tables(store, <<>>, <<result>>,
                                         <<[alias |-> AliasU]>>, <<>>)
                 ELSE create_temp_tables(store, <<result>>, <<>>,
                                         <<>>, <<[alias |-> AliasU]>>)
        IN  /\ store' = r.store
            /\ ret' = [op |-> "create_temp_tables", kind |-> kind,
                        name |-> TempTableName(AliasU), data |-> data,
                        columns |-> result.cols, raised |-> r.raised]
            /\ UNCHANGED <<lastInfo, saved, pending, ex, connections>>

NextTyped ==
    \/ TypedCreateTempTables
    \/ ApiCleanupTempTables

SpecTyped == Init /\ [][NextTyped]_vars

----------------------------------------------------------------------------
(* Query plans.  The plan of a generation is what the injected planner      *)
(* returns (ReportService takes its llm_service as a constructor argument,  *)
(* tests/test_report_service.py injects one); the plans considered have     *)
(* no_data_source_match = False and do not ask for the direct temp-table    *)
(* read.                                                                    *)

\* SQLQuery: `reads` is the scratch table a '__session__' statement selects
\* from (SELECT * FROM reads)
SQLQuery(db_config_id, reads, source_alias) ==
    [db |-> db_config_id, reads |-> reads, alias |-> source_alias]

\* MCPCall: tool "rows" answers with a list of records, tool "text" with
\* something that is not a list of records
MCPCall(mcp_config_id, tool_name, source_alias) ==
    [mcp |-> mcp_config_id, tool |-> tool_name, alias |-> source_alias]

QueryPlan(sql_queries, mcp_calls, needs_combination) ==
    [sql |-> sql_queries, mcp |-> mcp_calls, comb |-> needs_combination]

\* the configurations that exist; "dbX" and "mcpX" are identifiers without one
DbConfigs == {"db1"}
McpConfigs == {"mcp1"}
SessionDb == "__session__"

\* a combination plan with one relational sub-query and one tool call
PlanParallel ==
    QueryPlan(<<SQLQuery("db1", NoName, AliasU)>>, <<MCPCall("mcp1", "rows", AliasM)>>, TRUE)
\* a plan without combination with two relational sub-queries
PlanSeqPlain ==
    QueryPlan(<<SQLQuery("db1", NoName, AliasU), SQLQuery("db1", NoName, AliasV)>>,
              <<>>, FALSE)
\* a plan that only re-reads a session table
PlanReuse(t) == QueryPlan(<<SQLQuery(SessionDb, t, AliasV)>>, <<>>, FALSE)

\* the plans the planner writes over the origin sources
FreshPlans ==
    {\* combination of two relational sub-queries
     QueryPlan(<<SQLQuery("db1", NoName, AliasU), SQLQuery("db1", NoName, AliasV)>>,
               <<>>, TRUE),
     PlanParallel,
     \* combination of two sub-queries whose aliases differ in case only
     QueryPlan(<<SQLQuery("db1", NoName, AliasU), SQLQuery("db1", NoName, <<"U">>)>>,
               <<>>, TRUE),
     \* one relational sub-query
     QueryPlan(<<SQLQuery("db1", NoName, AliasU)>>, <<>>, FALSE),
     \* sequential branch, every source on an unknown configuration
     QueryPlan(<<SQLQuery("dbX", NoName, AliasU), SQLQuery("dbX", NoName, AliasV)>>,
               <<MCPCall("mcpX", "rows", AliasM)>>, FALSE),
     \* parallel branch, an unknown database and a tool that answers no list
     QueryPlan(<<SQLQuery("dbX", NoName, AliasU)>>,
               <<MCPCall("mcp1", "text", AliasM)>>, FALSE),
     PlanSeqPlain,
     \* a tool call alone
     QueryPlan(<<>>, <<MCPCall("mcp1", "rows", AliasM)>>, FALSE),
     \* no source at all
     QueryPlan(<<>>, <<>>, FALSE)}

\* a table name the scratch store never holds
MissingTable == <<"g", "o", "n", "e">>

\* DatabaseConnector.execute_query without its '__session__' case
execute_query_origin_only(st, sql_query, origin) ==
    IF sql_query.db \notin DbConfigs
    THEN [raised |-> TRUE, result |-> ResultSet(<<>>, <<>>)]
    ELSE [raised |-> FALSE, result |-> origin]

\* the plans the planner may return, given the session tables it is shown
PlansFor(session_temp_tables) ==
    FreshPlans \cup {PlanReuse(session_temp_tables[i]) : i \in DOMAIN session_temp_tables}
               \cup {PlanReuse(MissingTable)}

\* what a relational origin returns to a statement: rows with their columns
OriginResults == {ResultSet(r, RowKeys) : r \in RowChoices}

----------------------------------------------------------------------------
(* The two source executors *)

Raised == [raised |-> TRUE, result |-> ResultSet(<<>>, <<>>)]
Returned(result) == [raised |-> FALSE, result |-> result]

\* DatabaseConnector.execute_query: `origin` is what the origin database
\* answers.  It runs to completion without suspending.
execute_query(st, sql_query, origin) ==
    IF sql_query.db = SessionDb
    THEN IF IsSqlIdentifier(sql_query.reads) /\ TableExists(st, sql_query.reads)
         THEN Returned(ResultSet(TableRows(st, sql_query.reads),
                                 st[Fold(sql_query.reads)].cols))
         ELSE Raised
    ELSE IF sql_query.db \notin DbConfigs THEN Raised
    ELSE Returned(origin)

\* what a tool answers: something that is a list or not, a list having items
\* that are mappings (rows) or not
NotAList == [list |-> FALSE, items |-> <<>>]
ListResponse(items) == [list |-> TRUE, items |-> items]
DictItem(row) == [dict |-> TRUE, row |-> row]
NonDictItem == [dict |-> FALSE, row |-> <<>>]

\* a validation that looks at the first item only
validate_first_item(response) ==
    /\ response.list
    /\ response.items # <<>> => response.items[1].dict

\* MCPConnector.validate_tool_response
validate_tool_response(response) ==
    IF ~response.list THEN FALSE
    ELSE IF Len(response.items) = 0 THEN TRUE
    ELSE IF ~response.items[1].dict THEN FALSE
    ELSE LET first_keys == DOMAIN response.items[1].row
         IN  \A i \in 2..Len(response.items) :
                /\ response.items[i].dict
                /\ DOMAIN response.items[i].row = first_keys

\* MCPConnector.call_tool: tool "rows" answers with the list of records `data`,
\* any other tool with something that is not a list
call_tool(mcp_call, data) ==
    LET response == IF mcp_call.tool = "rows"
                    THEN ListResponse([i \in DOMAIN data |-> DictItem(data[i])])
                    ELSE NotAList
    IN  IF mcp_call.mcp \notin McpConfigs THEN Raised
        ELSE IF ~validate_tool_response(response) THEN Raised
        ELSE Returned(McpResult([i \in DOMAIN response.items |-> response.items[i].row]))

\* a decision that looks at the sources only, not at needs_combination
should_create_for_sources(query_plan) ==
    \/ \E i \in DOMAIN query_plan.sql : query_plan.sql[i].db # SessionDb
    \/ query_plan.mcp # <<>>

\* report_utils.should_create_temp_table
should_create_temp_table(query_plan) ==
    \/ \E i \in DOMAIN query_plan.sql : query_plan.sql[i].db # SessionDb
    \/ query_plan.mcp # <<>>
    \/ query_plan.comb

----------------------------------------------------------------------------
(* Spec: report generations.  `ex` is the generation in flight:             *)
(*   pc          where it stands: "seq" (the loop of the sequential         *)
(*               branch), "gather" (asyncio.gather of the source tasks),    *)
(*               "combine", "cleanup", "persist", "done", "failed"          *)
(*   i           sub-queries the sequential loop has finished               *)
(*   db_results  the results the sequential loop has appended               *)
(*   started     tasks of the gather that have been started                 *)
(*   done        task index -> outcome, for the tasks that have finished    *)
(*   errors      the sources the raised error describes (aliases)           *)
(*   stage       the call that raised                                       *)
(*   out         combined_data                                              *)
(*   created     the session table created for the interaction, if any      *)

\* session identifiers of report requests (uuid4: hex digits and hyphens)
ReportSessions == {<<"a", "-", "b">>}

NoResult == ResultSet(<<>>, <<>>)

Begin(path, session_id, query_plan) ==
    [pc |-> IF Len(query_plan.sql) > 1 THEN "seq" ELSE "gather",
     path |-> path, session |-> session_id, plan |-> query_plan,
     i |-> 0, db_results |-> <<>>, started |-> 0, done |-> EmptyStore,
     errors |-> {}, stage |-> "", out |-> NoResult, created |-> NoName]

Failed(gen, stage, errors) ==
    [gen EXCEPT !.pc = "failed", !.stage = stage, !.errors = errors]

\* a session takes a request while it has room for one more interaction
HasRoom(session_id) == saved[session_id] + pending[session_id] < MaxInteraction

\* ReportService.generate_report up to the call of execute_query_plan
GenerateReportStart ==
    /\ ex.pc = "idle"
    /\ \E s \in ReportSessions :
         /\ HasRoom(s)
         /\ \E query_plan \in PlansFor(list_session_temp_tables(store, s)) :
                ex' = Begin("generate_report", s, query_plan)
    /\ UNCHANGED <<store, lastInfo, ret, saved, pending, connections>>

\* FullQueryExecutor.execute up to the call of execute_query_plan
FullQueryStart ==
    /\ ex.pc = "idle"
    /\ \E s \in ReportSessions :
         /\ HasRoom(s)
         /\ \E query_plan \in PlansFor(list_session_temp_tables(store, s)) :
                ex' = Begin("full_query", s, query_plan)
    /\ UNCHANGED <<store, lastInfo, ret, saved, pending, connections>>

\* DataOnlyExecutor.execute up to the call of execute_query_plan
DataOnlyStart ==
    /\ ex.pc = "idle"
    /\ \E s \in ReportSessions :
         /\ HasRoom(s)
         /\ \E query_plan \in PlansFor(list_session_temp_tables(store, s)) :
                ex' = Begin("data_only", s, query_plan)
    /\ UNCHANGED <<store, lastInfo, ret, saved, pending, connections>>

\* TempTableQueryExecutor.execute up to the call of execute_query_plan: without
\* session tables it hands the request to FullQueryExecutor, with them the
\* planner is shown the session tables only, and sets needs_combination or not
TempTableQueryStart ==
    /\ ex.pc = "idle"
    /\ \E s \in ReportSessions :
         /\ HasRoom(s)
         /\ LET session_temp_tables == list_session_temp_tables(store, s)
            IN  IF session_temp_tables = <<>>
                THEN \E query_plan \in FreshPlans : ex' = Begin("full_query", s, query_plan)
                ELSE \E i \in DOMAIN session_temp_tables, needs_combination \in BOOLEAN :
                        ex' = Begin("temp_table_query", s,
                                    [PlanReuse(session_temp_tables[i])
                                        EXCEPT !.comb = needs_combination])
    /\ UNCHANGED <<store, lastInfo, ret, saved, pending, connections>>

\* ReuseDataExecutor.execute.  The last interaction of the session is read
\* from the application database: there is none, or its temp_table_name is
\* empty, or it is a name a generation of the session has saved.  Without a
\* name the request is handed to FullQueryExecutor.  With one, the rows and
\* the schema of the table are looked up; schema["columns"] raises when the
\* schema is None, the exception is caught and the request is handed to
\* FullQueryExecutor; otherwise the report is built from the rows, no plan is
\* executed and the background save is scheduled.  `reused` keeps the name.
ReuseDataStart ==
    /\ ex.pc = "idle"
    /\ \E s \in ReportSessions :
         /\ HasRoom(s)
         /\ \E temp_table_name \in
                  {NoName} \cup {SessionTableName(s, n) : n \in 1..MaxInteraction} :
              LET data == query_session_temp_table(store, temp_table_name, 0, 0)
                  schema == get_temp_table_schema(store, temp_table_name)
                  columns == [i \in DOMAIN schema.columns |-> schema.columns[i].name]
              IN  IF temp_table_name = NoName \/ schema.none
                  THEN /\ \E query_plan \in PlansFor(list_session_temp_tables(store, s)) :
                            ex' = [reused |-> temp_table_name]
                                      @@ Begin("full_query", s, query_plan)
                       /\ UNCHANGED pending
                  ELSE /\ ex' = [reused |-> temp_table_name]
                                    @@ [Begin("reuse_data", s, QueryPlan(<<>>, <<>>, FALSE))
                                          EXCEPT !.pc = "reused",
                                                 !.out = ResultSet(data.rows, columns)]
                       /\ pending' = [pending EXCEPT ![s] = @ + 1]
    /\ UNCHANGED <<store, lastInfo, ret, saved, connections>>

\* execute_query_plan, sequential branch: one iteration of the loop, which
\* runs the sub-query and, when it returned rows, creates and fills a table
\* named by the alias and commits
SeqIterate ==
    /\ ex.pc = "seq"
    /\ \E origin \in OriginResults :
         LET sql_query == ex.plan.sql[ex.i + 1]
             r == execute_query(store, sql_query, origin)
             made == create_table_from_data(store, sql_query.alias, r.result.rows,
                                            r.result.cols)
             loaded == insert_data_to_table(made.store, sql_query.alias, r.result.rows,
                                            r.result.cols)
         IN  IF r.raised
             THEN /\ ex' = Failed(ex, "execute", {sql_query.alias})
                  /\ store' = store
             ELSE IF r.result.rows # <<>> /\ (made.raised \/ loaded.raised)
             THEN /\ ex' = Failed(ex, "execute", {})
                  /\ store' = made.store
             ELSE /\ ex' = [ex EXCEPT !.i = @ + 1,
                                      !.db_results = Append(@, r.result),
                                      !.pc = IF ex.i + 1 = Len(ex.plan.sql)
                                             THEN "gather" ELSE "seq"]
                  /\ store' = IF r.result.rows = <<>> THEN store ELSE loaded.store
    /\ UNCHANGED <<lastInfo, ret, saved, pending, connections>>

\* the tasks handed to asyncio.gather: the tool calls, preceded by the
\* relational sub-query in the parallel branch
Tasks(query_plan) ==
    (IF Len(query_plan.sql) > 1 THEN <<>>
     ELSE [i \in DOMAIN query_plan.sql |-> [kind |-> "sql", call |-> query_plan.sql[i]]])
    \o [i \in DOMAIN query_plan.mcp |-> [kind |-> "mcp", call |-> query_plan.mcp[i]]]

WithDone(done, i, outcome) ==
    [k \in DOMAIN done \cup {i} |-> IF k = i THEN outcome ELSE done[k]]

\* The event loop starts the gathered tasks in list order; a task runs until
\* it first suspends.  execute_query never suspends, so a relational task is
\* finished by the step that starts it; call_tool raises at once for an
\* unknown configuration and otherwise suspends on the tool server.
StartTask ==
    /\ ex.pc = "gather"
    /\ ex.started < Len(Tasks(ex.plan))
    /\ LET i == ex.started + 1
           task == Tasks(ex.plan)[i]
       IN  IF task.kind = "sql"
           THEN \E origin \in OriginResults :
                   ex' = [ex EXCEPT !.started = i,
                                    !.done = WithDone(@, i,
                                                 execute_query(store, task.call, origin))]
           ELSE IF task.call.mcp \notin McpConfigs
           THEN ex' = [ex EXCEPT !.started = i,
                                 !.done = WithDone(@, i, call_tool(task.call, <<>>))]
           ELSE ex' = [ex EXCEPT !.started = i]
    /\ UNCHANGED <<store, lastInfo, ret, saved, pending, connections>>

\* a suspended tool call is answered; this happens once every task has run
\* to its first suspension
CompleteTask ==
    /\ ex.pc = "gather"
    /\ ex.started = Len(Tasks(ex.plan))
    /\ \E i \in DOMAIN Tasks(ex.plan) \ DOMAIN ex.done, data \in RowChoices :
         ex' = [ex EXCEPT !.done = WithDone(@, i, call_tool(Tasks(ex.plan)[i].call, data))]
    /\ UNCHANGED <<store, lastInfo, ret, saved, pending, connections>>

\* the results of the gathered tasks of one kind that returned, in task order
GatheredResults(tasks, done, kind) ==
    LET returned == SelectSeq([i \in DOMAIN tasks |-> i],
                              LAMBDA i : tasks[i].kind = kind /\ ~done[i].raised)
    IN  [j \in DOMAIN returned |-> done[returned[j]].result]

\* a gather that returns as soon as one task has raised
GatherFirstException(tasks, done) ==
    DOMAIN done = DOMAIN tasks \/ \E i \in DOMAIN done : done[i].raised

\* asyncio.gather(*tasks, return_exceptions=True) returns when every task has
\* returned or raised
GatherDone(tasks, done) == DOMAIN done = DOMAIN tasks

\* the last result of a kind rather than the first
LastResult(db_results, mcp_results) ==
    IF db_results # <<>> THEN db_results[Len(db_results)]
    ELSE IF mcp_results # <<>> THEN mcp_results[Len(mcp_results)]
    ELSE NoResult

\* execute_query_plan without combination: the first result is returned
FirstResult(db_results, mcp_results) ==
    IF db_results # <<>> THEN db_results[1]
    ELSE IF mcp_results # <<>> THEN mcp_results[1]
    ELSE NoResult

\* execute_query_plan after the gather: the errors are collected and raised as
\* one exception; without combination the first result is returned; with it
\* create_temp_tables runs and its table info is cached
FinishExecute ==
    /\ ex.pc = "gather"
    /\ GatherDone(Tasks(ex.plan), ex.done)
    /\ LET tasks == Tasks(ex.plan)
           errors == {tasks[i].call.alias : i \in {k \in DOMAIN ex.done : ex.done[k].raised}}
           db_results == IF Len(ex.plan.sql) > 1 THEN ex.db_results
                         ELSE GatheredResults(tasks, ex.done, "sql")
           mcp_results == GatheredResults(tasks, ex.done, "mcp")
           made == create_temp_tables(store, mcp_results, db_results,
                                      ex.plan.sql, ex.plan.mcp)
           after == IF ex.plan.comb /\ ex.path # "temp_table_query"
                    THEN "combine" ELSE "persist"
       IN  IF errors # {}
           THEN /\ ex' = Failed(ex, "execute", errors)
                /\ UNCHANGED <<store, lastInfo>>
           ELSE IF ~ex.plan.comb
           THEN /\ ex' = [ex EXCEPT !.pc = after,
                                    !.out = FirstResult(db_results, mcp_results)]
                /\ UNCHANGED <<store, lastInfo>>
           ELSE IF made.raised
           THEN /\ ex' = Failed(ex, "create_temp_tables", {})
                /\ store' = made.store
                /\ UNCHANGED lastInfo
           ELSE /\ ex' = [ex EXCEPT !.pc = after, !.out = NoResult]
                /\ store' = made.store
                /\ lastInfo' = made.info
    /\ UNCHANGED <<ret, saved, pending, connections>>

\* ReportService._get_temp_table_info: the tables named LIKE 'temp_%'
TempTableInfoNames(st) ==
    {n \in MasterNames(st) : LikeMatch(TempPrefix \o <<"%">>, n)}

\* the tables the planner is told about when it writes the combination
\* statement: generate_report asks sqlite_master, the executors take the
\* cached info and ask sqlite_master only when that is empty
CombinationTables(path, st, info) ==
    IF path = "generate_report" \/ DOMAIN info = {}
    THEN TempTableInfoNames(st)
    ELSE DOMAIN info

\* the combination step: the planner writes a statement over one of the
\* tables it was told about, combine_data_with_sql runs it
Combine ==
    /\ ex.pc = "combine"
    /\ \E t \in CombinationTables(ex.path, store, lastInfo) :
         LET r == combine_data_with_sql(store, <<t>>)
         IN  ex' = IF r.raised THEN Failed(ex, "combine_data_with_sql", {})
                   ELSE [ex EXCEPT !.pc = "cleanup", !.out = ResultSet(r.rows, r.cols)]
    /\ UNCHANGED <<store, lastInfo, ret, saved, pending, connections>>

\* cleanup_temp_tables() as the generation calls it after a combination
Cleanup ==
    /\ ex.pc = "cleanup"
    /\ store' = cleanup_temp_tables(store)
    /\ lastInfo' = EmptyStore
    /\ ex' = [ex EXCEPT !.pc = "persist"]
    /\ UNCHANGED <<ret, saved, pending, connections>>

\* _get_next_interaction_num: the stored interactions of the session, plus one
get_next_interaction_num(session_id) == saved[session_id] + 1

\* the session table is written and the background save is scheduled
PersistWithTable ==
    LET r == create_session_temp_table(store, ex.session,
                                       get_next_interaction_num(ex.session),
                                       ex.out.rows, ex.out.cols, ex.out.cols)
    IN  IF r.raised
        THEN /\ ex' = Failed(ex, "create_session_temp_table", {})
             /\ store' = r.store
             /\ UNCHANGED pending
        ELSE /\ ex' = [ex EXCEPT !.pc = "done", !.created = r.name]
             /\ store' = r.store
             /\ pending' = [pending EXCEPT ![ex.session] = @ + 1]

\* only the background save is scheduled
PersistWithoutTable ==
    /\ ex' = [ex EXCEPT !.pc = "done"]
    /\ pending' = [pending EXCEPT ![ex.session] = @ + 1]
    /\ UNCHANGED store

\* generate_report: the session table is created for every plan
PersistGenerateReport ==
    /\ ex.pc = "persist"
    /\ ex.path = "generate_report"
    /\ PersistWithTable
    /\ UNCHANGED <<lastInfo, ret, saved, connections>>

\* FullQueryExecutor and DataOnlyExecutor: should_create_temp_table decides
PersistExecutor ==
    /\ ex.pc = "persist"
    /\ ex.path \in {"full_query", "data_only"}
    /\ IF should_create_temp_table(ex.plan) THEN PersistWithTable ELSE PersistWithoutTable
    /\ UNCHANGED <<lastInfo, ret, saved, connections>>

\* TempTableQueryExecutor: never a session table
PersistTempTableQuery ==
    /\ ex.pc = "persist"
    /\ ex.path = "temp_table_query"
    /\ PersistWithoutTable
    /\ UNCHANGED <<lastInfo, ret, saved, connections>>

\* the generation returns its report, or its exception reaches the caller
GenFinish ==
    /\ ex.pc \in {"done", "failed", "reused"}
    /\ ex' = Idle
    /\ UNCHANGED <<store, lastInfo, ret, saved, pending, connections>>

\* _save_session_async runs: the interaction is stored
SaveComplete ==
    /\ \E s \in ReportSessions :
         /\ pending[s] > 0
         /\ saved' = [saved EXCEPT ![s] = @ + 1]
         /\ pending' = [pending EXCEPT ![s] = @ - 1]
    /\ UNCHANGED <<store, lastInfo, ret, ex, connections>>

Next ==
    \/ GenerateReportStart
    \/ FullQueryStart
    \/ DataOnlyStart
    \/ TempTableQueryStart
    \/ ReuseDataStart
    \/ SeqIterate
    \/ StartTask
    \/ CompleteTask
    \/ FinishExecute
    \/ Combine
    \/ Cleanup
    \/ PersistGenerateReport
    \/ PersistExecutor
    \/ PersistTempTableQuery
    \/ GenFinish
    \/ SaveComplete

Spec == Init /\ [][Next]_vars

----------------------------------------------------------------------------
(* SpecConcurrent: two requests served by one process, hence by the one     *)
(* DataSourceManager that get_data_source_manager() returns and its one     *)
(* scratch file.  Both run FullQueryExecutor.execute on a combination plan  *)
(* with one relational sub-query and one tool call.  `ex` maps a request to *)
(* its execution.  The event loop runs one execution until it suspends at   *)
(* an await, so each action is the code of one execution between two        *)
(* suspension points.  Each request is served once: its execution ends when *)
(* the report is returned ("done") or an exception reaches the caller       *)
(* ("failed").                                                              *)

Executions == {"first", "second"}

\* the plans of the two requests share the tool alias m and may differ in the
\* relational alias
ConcurrentPlans ==
    {PlanParallel,
     QueryPlan(<<SQLQuery("db1", NoName, AliasV)>>, <<MCPCall("mcp1", "rows", AliasM)>>,
               TRUE)}

InitConcurrent ==
    /\ store = EmptyStore
    /\ lastInfo = EmptyStore
    /\ ret = NoRet
    /\ saved = [s \in SessionIds |-> 0]
    /\ pending = [s \in SessionIds |-> 0]
    /\ connections = NoConnections
    /\ ex = [e \in Executions |-> Idle]

\* FullQueryExecutor.execute up to the call of execute_query_plan; an
\* execution also keeps the combination statement the planner writes for it
ConcurrentStart(e) ==
    /\ ex[e].pc = "idle"
    /\ \E s \in ReportSessions, query_plan \in ConcurrentPlans :
         /\ HasRoom(s)
         /\ ex' = [ex EXCEPT ![e] = [combination_sql |-> <<>>]
                                       @@ Begin("full_query", s, query_plan)]
    /\ UNCHANGED <<store, lastInfo, ret, saved, pending, connections>>

\* execute_query_plan, parallel branch.  The relational query and the tool
\* call are gathered; neither reads or writes the scratch file or the cached
\* info (the sub-query is on an origin database), so the suspension on the
\* tool server is not a step of its own here.  After the gather the errors are
\* raised, or create_temp_tables runs without suspending and its table info
\* replaces the cached one.
ConcurrentExecuteQueryPlan(e) ==
    /\ ex[e].pc = "gather"
    /\ \E origin \in OriginResults, data \in RowChoices :
         LET gen == ex[e]
             tasks == Tasks(gen.plan)
             done == WithDone(WithDone(EmptyStore, 1,
                                       execute_query(store, tasks[1].call, origin)),
                              2, call_tool(tasks[2].call, data))
             errors == {tasks[i].call.alias : i \in {k \in DOMAIN tasks : done[k].raised}}
             made == create_temp_tables(store, GatheredResults(tasks, done, "mcp"),
                                        GatheredResults(tasks, done, "sql"),
                                        gen.plan.sql, gen.plan.mcp)
             ran == [gen EXCEPT !.started = Len(tasks), !.done = done]
         IN  IF errors # {}
             THEN /\ ex' = [ex EXCEPT ![e] = Failed(ran, "execute", errors)]
                  /\ UNCHANGED <<store, lastInfo>>
             ELSE IF made.raised
             THEN /\ ex' = [ex EXCEPT ![e] = Failed(ran, "create_temp_tables", {})]
                  /\ store' = made.store
                  /\ UNCHANGED lastInfo
             ELSE /\ ex' = [ex EXCEPT ![e] = [ran EXCEPT !.pc = "combine"]]
                  /\ store' = made.store
                  /\ lastInfo' = made.info
    /\ UNCHANGED <<ret, saved, pending, connections>>

\* combine_data up to the statement the planner returns: the planner is told
\* the cached table info, or what sqlite_master lists when that is empty, and
\* writes a statement over one of those tables; told about no table, it names
\* one that does not exist
ConcurrentPlanCombination(e) ==
    /\ ex[e].pc = "combine"
    /\ LET told == CombinationTables(ex[e].path, store, lastInfo)
       IN  \E t \in (IF told = {} THEN {MissingTable} ELSE told) :
              ex' = [ex EXCEPT ![e].pc = "planned", ![e].combination_sql = <<t>>]
    /\ UNCHANGED <<store, lastInfo, ret, saved, pending, connections>>

\* combine_data_with_sql runs the statement
ConcurrentCombine(e) ==
    /\ ex[e].pc = "planned"
    /\ LET r == combine_data_with_sql(store, ex[e].combination_sql)
       IN  ex' = [ex EXCEPT ![e] =
                     IF r.raised THEN Failed(ex[e], "combine_data_with_sql", {})
                     ELSE [ex[e] EXCEPT !.pc = "cleanup",
                                        !.out = ResultSet(r.rows, r.cols)]]
    /\ UNCHANGED <<store, lastInfo, ret, saved, pending, connections>>

\* after the filters and the chart suggestion: cleanup_temp_tables()
ConcurrentCleanup(e) ==
    /\ ex[e].pc = "cleanup"
    /\ store' = cleanup_temp_tables(store)
    /\ lastInfo' = EmptyStore
    /\ ex' = [ex EXCEPT ![e].pc = "persist"]
    /\ UNCHANGED <<ret, saved, pending, connections>>

\* the session table is written when should_create_temp_table says so, and
\* the background save is scheduled
ConcurrentPersist(e) ==
    /\ ex[e].pc = "persist"
    /\ LET gen == ex[e]
           r == create_session_temp_table(store, gen.session,
                                          get_next_interaction_num(gen.session),
                                          gen.out.rows, gen.out.cols, gen.out.cols)
       IN  IF ~should_create_temp_table(gen.plan)
           THEN /\ ex' = [ex EXCEPT ![e].pc = "done"]
                /\ pending' = [pending EXCEPT ![gen.session] = @ + 1]
                /\ UNCHANGED store
           ELSE IF r.raised
           THEN /\ ex' = [ex EXCEPT ![e] = Failed(gen, "create_session_temp_table", {})]
                /\ store' = r.store
                /\ UNCHANGED pending
           ELSE /\ ex' = [ex EXCEPT ![e].pc = "done", ![e].created = r.name]
                /\ store' = r.store
                /\ pending' = [pending EXCEPT ![gen.session] = @ + 1]
    /\ UNCHANGED <<lastInfo, ret, saved, connections>>

NextConcurrent ==
    \/ \E e \in Executions : ConcurrentStart(e)
    \/ \E e \in Executions : ConcurrentExecuteQueryPlan(e)
    \/ \E e \in Executions : ConcurrentPlanCombination(e)
    \/ \E e \in Executions : ConcurrentCombine(e)
    \/ \E e \in Executions : ConcurrentCleanup(e)
    \/ \E e \in Executions : ConcurrentPersist(e)
    \/ SaveComplete

SpecConcurrent == InitConcurrent /\ [][NextConcurrent]_vars

----------------------------------------------------------------------------
(* SpecConnect: tool calls in flight at once on the one MCPConnector, as    *)
(* execute_query_plan gathers them.  `ex` maps a caller to its call_tool;   *)
(* a session handle is named by the server and the call that opened it.     *)

Callers == {"first", "second", "third"}

InitConnect ==
    /\ store = EmptyStore
    /\ lastInfo = EmptyStore
    /\ ret = NoRet
    /\ saved = [s \in SessionIds |-> 0]
    /\ pending = [s \in SessionIds |-> 0]
    /\ ex = [c \in Callers |-> Idle]
    /\ connections = NoConnections

\* call_tool up to its first suspension.  _get_or_create_connection returns
\* the cached session if there is one, and the call suspends on
\* session.call_tool; otherwise _get_mcp_config raises for an unknown
\* configuration, or the call suspends on stdio_client with nothing cached.
CallToolStart(c) ==
    /\ ex[c].pc = "idle"
    /\ \E mcp_config_id \in McpConfigs \cup {"mcpX"} :
         ex' = [ex EXCEPT ![c] =
                   IF mcp_config_id \in DOMAIN connections.cached
                   THEN [pc |-> "calling", mcp |-> mcp_config_id,
                         session |-> connections.cached[mcp_config_id]]
                   ELSE IF mcp_config_id \notin McpConfigs
                   THEN [pc |-> "failed", mcp |-> mcp_config_id]
                   ELSE [pc |-> "connecting", mcp |-> mcp_config_id]]
    /\ UNCHANGED <<store, lastInfo, ret, saved, pending, connections>>

\* stdio_client and session.initialize() have returned: the new session is
\* stored under the identifier, in place of whatever is stored there, and
\* the call suspends on session.call_tool
ConnectionCreated(c) ==
    /\ ex[c].pc = "connecting"
    /\ LET session == [mcp |-> ex[c].mcp, by |-> c]
       IN  /\ connections' =
                 [cached |-> [k \in DOMAIN connections.cached \cup {ex[c].mcp} |->
                                 IF k = ex[c].mcp THEN session
                                 ELSE connections.cached[k]],
                  open |-> connections.open \cup {session}]
           /\ ex' = [ex EXCEPT ![c] = [pc |-> "calling", mcp |-> ex[c].mcp,
                                       session |-> session]]
    /\ UNCHANGED <<store, lastInfo, ret, saved, pending>>

\* the tool has answered
CallToolReturn(c) ==
    /\ ex[c].pc = "calling"
    /\ ex' = [ex EXCEPT ![c].pc = "returned"]
    /\ UNCHANGED <<store, lastInfo, ret, saved, pending, connections>>

\* close_connection(mcp_config_id): the cached session is closed and removed
CloseConnection ==
    /\ \E mcp_config_id \in DOMAIN connections.cached :
         connections' =
             [cached |-> [k \in DOMAIN connections.cached \ {mcp_config_id} |->
                             connections.cached[k]],
              open |-> connections.open \ {connections.cached[mcp_config_id]}]
    /\ UNCHANGED <<store, lastInfo, ret, saved, pending, ex>>

NextConnect ==
    \/ \E c \in Callers : CallToolStart(c)
    \/ \E c \in Callers : ConnectionCreated(c)
    \/ \E c \in Callers : CallToolReturn(c)
    \/ CloseConnection

SpecConnect == InitConnect /\ [][NextConnect]_vars

----------------------------------------------------------------------------
(* SpecPure: the functions without state, each called once on an argument   *)
(* drawn from a bounded set.  `ret` holds the call, then what it returned.  *)

Call(fn, arg) == [op |-> "call", fn |-> fn, arg |-> arg]
Return(fn, arg, val) == [op |-> "return", fn |-> fn, arg |-> arg, val |-> val]

\* the tool responses: something that is not a list, and the lists of up to
\* MaxItems items, an item being something that is not a mapping or a mapping
\* over the keys "c" and "d"
ToolResponses ==
    LET ItemChoices ==
            {NonDictItem} \cup
            {DictItem([k \in keys |-> PyInt("1")]) : keys \in SUBSET {"c", "d"}}
    IN  {NotAList} \cup
        {ListResponse(items) :
            items \in UNION {[1..n -> ItemChoices] : n \in 0..MaxItems}}

\* the plans of up to MaxQueries relational sub-queries, each on an origin or
\* on the scratch store, with or without a tool call, with or without
\* combination
PlanChoices ==
    {QueryPlan(sql_queries, mcp_calls, needs_combination) :
        sql_queries \in UNION {[1..n -> {SQLQuery("db1", NoName, AliasU),
                                         SQLQuery(SessionDb, MissingTable, AliasV)}] :
                               n \in 0..MaxQueries},
        mcp_calls \in {<<>>, <<MCPCall("mcp1", "rows", AliasM)>>},
        needs_combination \in BOOLEAN}

PureCalls ==
    {Call("validate_tool_response", response) : response \in ToolResponses}
    \cup {Call("should_create_temp_table", query_plan) : query_plan \in PlanChoices}
    \cup {Call("get_tool_metadata", data) : data \in TypedData("c")}
    \cup {Call("get_combined_metadata", ResultSet(data, <<"c">>)) : data \in TypedData("c")}

InitPure ==
    /\ store = EmptyStore
    /\ lastInfo = EmptyStore
    /\ ret \in PureCalls
    /\ saved = [s \in SessionIds |-> 0]
    /\ pending = [s \in SessionIds |-> 0]
    /\ connections = NoConnections
    /\ ex = Idle

ApplyValidateToolResponse ==
    /\ ret.op = "call"
    /\ ret.fn = "validate_tool_response"
    /\ ret' = Return(ret.fn, ret.arg, validate_tool_response(ret.arg))
    /\ UNCHANGED <<store, lastInfo, saved, pending, ex, connections>>

ApplyShouldCreateTempTable ==
    /\ ret.op = "call"
    /\ ret.fn = "should_create_temp_table"
    /\ ret' = Return(ret.fn, ret.arg, should_create_temp_table(ret.arg))
    /\ UNCHANGED <<store, lastInfo, saved, pending, ex, connections>>

ApplyGetToolMetadata ==
    /\ ret.op = "call"
    /\ ret.fn = "get_tool_metadata"
    /\ ret' = Return(ret.fn, ret.arg, get_tool_metadata(ret.arg))
    /\ UNCHANGED <<store, lastInfo, saved, pending, ex, connections>>

ApplyGetCombinedMetadata ==
    /\ ret.op = "call"
    /\ ret.fn = "get_combined_metadata"
    /\ ret' = Return(ret.fn, ret.arg, get_combined_metadata(ret.arg))
    /\ UNCHANGED <<store, lastInfo, saved, pending, ex, connections>>

NextPure ==
    \/ ApplyValidateToolResponse
    \/ ApplyShouldCreateTempTable
    \/ ApplyGetToolMetadata
    \/ ApplyGetCombinedMetadata

SpecPure == InitPure /\ [][NextPure]_vars

----------------------------------------------------------------------------
(* Properties *)

\* C1: in the sequential branch, by the time the next sub-query is started,
\* the result of every sub-query run so far exists as a committed scratch
\* table under its alias, holding the rows that sub-query returned.
C1_MaterializedBeforeNext ==
    (ex.pc = "seq" /\ ex.i >= 1) =>
        \A n \in 1..ex.i :
            /\ TableExists(store, ex.plan.sql[n].alias)
            /\ TableRows(store, ex.plan.sql[n].alias) = ex.db_results[n].rows

\* C2: a session table, once created, stays listed for its session and keeps
\* its rows across every step of later report generations (none of which
\* calls drop_session_temp_tables).
C2_SessionTablesSurvive ==
    [][\A k \in DOMAIN store :
          store[k].session # NoSession =>
              /\ k \in DOMAIN store'
              /\ store'[k].rows = store[k].rows
              /\ store'[k].name \in
                     Range(list_session_temp_tables(store', store[k].session))]_vars

\* C3: when execute_query_plan fails on its sources, the one error it raises
\* describes every failing source of the plan, in either branch.  The failing
\* sources are those whose call raises whenever it is made: an unknown
\* configuration, or a tool whose answer is not tabular.
C3_ErrorNamesEveryFailingSource ==
    (ex.pc = "failed" /\ ex.stage = "execute") =>
        LET query_plan == ex.plan
            failing ==
                {query_plan.sql[i].alias :
                    i \in {k \in DOMAIN query_plan.sql :
                              query_plan.sql[k].db \notin DbConfigs \cup {SessionDb}}}
                \cup
                {query_plan.mcp[i].alias :
                    i \in {k \in DOMAIN query_plan.mcp :
                              call_tool(query_plan.mcp[k], <<>>).raised}}
        IN  failing \subseteq ex.errors

\* a plan with exactly one relational sub-query and at least one tool call
OneQueryWithTools(query_plan) == Len(query_plan.sql) = 1 /\ query_plan.mcp # <<>>

\* C4: with one relational sub-query and tool calls, the tool calls do not
\* wait for the relational query: when the relational query has completed,
\* a tool call has already been started.
C4_ToolStartedBeforeQueryCompletes ==
    (ex.pc = "gather" /\ OneQueryWithTools(ex.plan) /\ 1 \in DOMAIN ex.done) =>
        ex.started > 1

\* what the code does instead: no tool call is ever in flight, or finished,
\* while the relational query is still to complete
C4_NoOverlap ==
    (ex.pc = "gather" /\ OneQueryWithTools(ex.plan) /\ ex.started > 1) =>
        1 \in DOMAIN ex.done

\* a plan whose sub-queries all read the scratch store, without tool calls
\* and without combination
PureReuse(query_plan) ==
    /\ \A i \in DOMAIN query_plan.sql : query_plan.sql[i].db = SessionDb
    /\ query_plan.mcp = <<>>
    /\ ~query_plan.comb

C6_CreateListDrop ==
    [][/\ (ret'.op = "create_session_temp_table" /\ ~ret'.none /\ ~ret'.raised) =>
             ret'.name \in Range(list_session_temp_tables(store', ret'.session))
       /\ ret'.op = "drop_session_temp_tables" =>
             /\ ret'.count = Len(list_session_temp_tables(store, ret'.session))
             /\ list_session_temp_tables(store', ret'.session) = <<>>]_vars

\* a drop has just removed the tables of a session that had some
C6_Witness ==
    /\ ret.op = "drop_session_temp_tables"
    /\ ret.count >= 1
    /\ list_session_temp_tables(store, ret.session) = <<>>

\* C7: drop_session_temp_tables(s) leaves every table that was not created
\* for s as it was, and list_session_temp_tables(s) reports only tables
\* created for s.
C7_DropAndListOwnSessionOnly ==
    [][/\ ret'.op = "drop_session_temp_tables" =>
             \A k \in DOMAIN store :
                 store[k].session # ret'.session =>
                     k \in DOMAIN store' /\ store'[k] = store[k]
       /\ \A s \in SessionIds :
             \A n \in Range(list_session_temp_tables(store', s)) :
                 store'[Fold(n)].session = s]_vars

\* C8: the table name create_session_temp_table builds consists of
\* alphanumeric characters and underscores only.
C8_NameIsSanitized ==
    (ret.op = "create_session_temp_table" /\ ~ret.none) =>
        \A i \in DOMAIN ret.name : IsAlnum(ret.name[i]) \/ ret.name[i] = "_"

\* C9: once cleanup_temp_tables has run, a query against any table that
\* existed before it fails, be it a combination query or a session-table
\* query.
C9_QueriesFailAfterCleanup ==
    [][ret'.op = "cleanup_temp_tables" =>
          \A k \in DOMAIN store :
              /\ combine_data_with_sql(store', <<store[k].name>>).raised
              /\ query_session_temp_table(store', store[k].name, 0, 0).raised]_vars

\* the sources of the plan in flight with the rows each returned
SourceRows(gen) ==
    LET tasks == Tasks(gen.plan)
    IN  (IF Len(gen.plan.sql) > 1
         THEN [n \in DOMAIN gen.plan.sql |->
                  [alias |-> gen.plan.sql[n].alias, rows |-> gen.db_results[n].rows]]
         ELSE <<>>)
        \o [i \in DOMAIN tasks |->
                [alias |-> tasks[i].call.alias, rows |-> gen.done[i].result.rows]]

\* C10: when execute_query_plan has succeeded on a combination plan, the
\* cached table info has exactly one entry per source, keyed temp_<alias>,
\* with the row count that source returned, and the scratch store has a table
\* of that name with that many rows.
C10_TableInfoMatchesSources ==
    (ex.pc = "combine") =>
        LET sources == SourceRows(ex)
        IN  /\ DOMAIN lastInfo = {TempTableName(sources[i].alias) : i \in DOMAIN sources}
            /\ Cardinality(DOMAIN lastInfo) = Len(sources)
            /\ \A i \in DOMAIN sources :
                  LET table_name == TempTableName(sources[i].alias)
                  IN  /\ lastInfo[table_name].row_count = Len(sources[i].rows)
                      /\ TableExists(store, table_name)
                      /\ Len(TableRows(store, table_name)) = Len(sources[i].rows)

\* C11: without combination and with every source call successful,
\* execute_query_plan returns the rows and columns of the first relational
\* sub-query's result, or of the first tool call's result when the plan has no
\* relational sub-query, or the empty result without columns when it has no
\* source.
C11_ReturnsFirstResult ==
    (ex.pc \in {"persist", "done"} /\ ~ex.plan.comb) =>
        ex.out = IF Len(ex.plan.sql) > 1 THEN ex.db_results[1]
                 ELSE IF ex.plan.sql # <<>> \/ ex.plan.mcp # <<>> THEN ex.done[1].result
                 ELSE NoResult

\* a plan of two sub-queries returned the rows of the first, the second
\* having returned none
C11_Witness ==
    /\ ex.pc = "persist"
    /\ ex.plan = PlanSeqPlain
    /\ ex.db_results[2].rows = <<>>
    /\ ex.out.rows # <<>>

\* the rows of a result or of a table as a set, compared as Python compares
\* values
RowSet(rows) ==
    {[col \in DOMAIN rows[i] |-> PyNorm(rows[i][col])] : i \in DOMAIN rows}

\* C12: a result set with at least one column is materialized (the table is
\* created and its rows are loaded) without error, and SELECT * on the table
\* then returns the rows of the result set, as a set: all of them, and none
\* of a table that was there under the name before.
C12_ReadBackEqualsRows ==
    (ret.op = "create_temp_tables" /\ "kind" \in DOMAIN ret /\ ret.columns # <<>>) =>
        /\ ~ret.raised
        /\ TableExists(store, ret.name)
        /\ RowSet(TableRows(store, ret.name)) = RowSet(ret.data)

\* C13: create_temp_tables, given a result without rows, be it a relational
\* result or a valid tool response, succeeds and leaves a table without rows
\* whose columns are all declared TEXT and which a combination query can read.
C13_EmptyResultGivesEmptyTable ==
    (ret.op = "create_temp_tables" /\ "kind" \in DOMAIN ret /\ ret.data = <<>>) =>
        /\ ~ret.raised
        /\ TableExists(store, ret.name)
        /\ TableRows(store, ret.name) = <<>>
        /\ \A col \in DOMAIN store[Fold(ret.name)].types :
              store[Fold(ret.name)].types[col] = "TEXT"
        /\ ~combine_data_with_sql(store, <<ret.name>>).raised

\* C14: creating the scratch table of a result whose column list is empty
\* fails, and afterwards the store has no table of that name.
C14_NoColumnsFails ==
    (ret.op = "create_temp_tables" /\ "kind" \in DOMAIN ret /\ ret.columns = <<>>) =>
        /\ ret.raised
        /\ ~TableExists(store, ret.name)

\* a result without columns has just been refused
C14_Witness ==
    /\ ret.op = "create_temp_tables"
    /\ "kind" \in DOMAIN ret
    /\ ret.columns = <<>>
    /\ ret.raised
    /\ ~TableExists(store, ret.name)

\* C15: validate_tool_response accepts a response exactly when it is a list
\* that is empty or whose items are all mappings with the key set of the
\* first item; everything else is rejected.
C15_ValidateAcceptsTables ==
    (ret.op = "return" /\ ret.fn = "validate_tool_response") =>
        (ret.val <=>
            /\ ret.arg.list
            /\ \A i \in DOMAIN ret.arg.items :
                  /\ ret.arg.items[i].dict
                  /\ DOMAIN ret.arg.items[i].row = DOMAIN ret.arg.items[1].row)

\* a list whose first item is a mapping and whose last item is not has been
\* rejected
C15_Witness ==
    /\ ret.op = "return"
    /\ ret.fn = "validate_tool_response"
    /\ ret.arg.list
    /\ Len(ret.arg.items) >= 2
    /\ ret.arg.items[1].dict
    /\ ~ret.arg.items[Len(ret.arg.items)].dict
    /\ ~ret.val

\* a plan whose single relational sub-query reads the scratch store, without
\* tool calls
ReadsSession(query_plan) ==
    /\ Len(query_plan.sql) = 1
    /\ query_plan.sql[1].db = SessionDb
    /\ query_plan.mcp = <<>>

\* C16: a plan whose single sub-query has the source '__session__' and selects
\* from a table of the scratch store returns that table's rows and columns
\* (execute_query_plan returns rows for a plan without combination); when the
\* table is missing the sub-query raises and the plan fails with the
\* error of its one source, as it does for any other relational source.
C16_SessionTableAsSource ==
    (ex.pc # "idle" /\ ReadsSession(ex.plan)) =>
        LET t == ex.plan.sql[1].reads
        IN  /\ (ex.pc = "gather" /\ 1 \in DOMAIN ex.done) =>
                   (ex.done[1].raised <=> ~TableExists(store, t))
            /\ (ex.pc = "persist" /\ ~ex.plan.comb) =>
                   /\ TableExists(store, t)
                   /\ ex.out = ResultSet(TableRows(store, t), store[Fold(t)].cols)
            /\ (ex.pc = "failed" /\ ex.stage = "execute") =>
                   /\ ~TableExists(store, t)
                   /\ ex.errors = {ex.plan.sql[1].alias}

\* a plan has returned the rows of a session table
C16_Witness ==
    /\ ex.pc = "persist"
    /\ ReadsSession(ex.plan)
    /\ ex.out.rows # <<>>
    /\ ex.out.rows = TableRows(store, ex.plan.sql[1].reads)

\* C17: should_create_temp_table is true exactly for the plans that have a
\* relational sub-query on a source other than '__session__', or a tool call,
\* or needs_combination; it is false for the plans that only read
\* '__session__', without tool calls and without combination.
C17_ShouldCreateExactly ==
    (ret.op = "return" /\ ret.fn = "should_create_temp_table") =>
        /\ ret.val <=>
              \/ \E i \in DOMAIN ret.arg.sql : ret.arg.sql[i].db # SessionDb
              \/ Len(ret.arg.mcp) >= 1
              \/ ret.arg.comb
        /\ PureReuse(ret.arg) => ~ret.val

\* the function has answered true for a plan that reads '__session__' only
\* and asks for a combination
C17_Witness ==
    /\ ret.op = "return"
    /\ ret.fn = "should_create_temp_table"
    /\ ret.arg.sql # <<>>
    /\ \A i \in DOMAIN ret.arg.sql : ret.arg.sql[i].db = SessionDb
    /\ ret.arg.mcp = <<>>
    /\ ret.arg.comb
    /\ ret.val

\* the rows a metadata call was given
MetadataRows(call) == IF call.fn = "get_tool_metadata" THEN call.arg ELSE call.arg.rows

\* C18: get_combined_metadata and get_tool_metadata give a column whose
\* first value that is not None is a boolean the type BOOLEAN, not INTEGER,
\* and give integer, float and string values INTEGER, FLOAT and TEXT.
C18_BooleanIsNotInteger ==
    (ret.op = "return" /\ ret.fn \in {"get_tool_metadata", "get_combined_metadata"}) =>
        \A col \in DOMAIN ret.val.column_types :
            LET value == FirstValue(MetadataRows(ret), col)
                type == ret.val.column_types[col]
            IN  /\ value.py = "bool" => type = "BOOLEAN" /\ type # "INTEGER"
                /\ value.py = "int" => type = "INTEGER"
                /\ value.py = "float" => type = "FLOAT"
                /\ value.py = "str" => type = "TEXT"

\* a column that starts with None and goes on with a boolean has been given
\* the type BOOLEAN
C18_Witness ==
    /\ ret.op = "return"
    /\ ret.fn \in {"get_tool_metadata", "get_combined_metadata"}
    /\ Len(MetadataRows(ret)) >= 2
    /\ MetadataRows(ret)[1]["c"] = PyNone
    /\ MetadataRows(ret)[2]["c"].py = "bool"
    /\ ret.val.column_types["c"] = "BOOLEAN"

\* C19: looking up a table name the scratch store does not hold, with
\* query_session_temp_table or with get_temp_table_schema, raises an error to
\* the caller.  The names looked up are the first table of each session and a
\* name that was never a table.
C19_LookupMissRaises ==
    \A table_name \in {SessionTableName(s, 1) : s \in SessionIds} \cup {MissingTable} :
        ~TableExists(store, table_name) =>
            /\ query_session_temp_table(store, table_name, 0, 0).raised
            /\ get_temp_table_schema(store, table_name).raised

\* a plan that names a missing table has failed
C16_WitnessMissing ==
    /\ ex.pc = "failed"
    /\ ReadsSession(ex.plan)
    /\ ex.plan.sql[1].reads = MissingTable

\* the tables a combination plan's combination query is written over
Depends(gen) ==
    {TempTableName(Tasks(gen.plan)[i].call.alias) : i \in DOMAIN Tasks(gen.plan)}

\* C20: two executions of combination plans share the scratch file and the
\* cached table info, and one of them acts while the other is suspended between
\* its execute_query_plan and its combination query.  When the one that
\* acts calls cleanup_temp_tables, every table the other's combination query
\* depends on is gone and the cached info is empty; when it comes out of
\* execute_query_plan, the cached info describes its tables instead of the
\* other's, and every table of that name holds its rows.
C20_OtherExecutionInterferes ==
    [][\A e \in Executions : \A f \in Executions \ {e} :
          (ex[e].pc \in {"combine", "planned"} /\ ex'[e] = ex[e]) =>
              /\ (ex[f].pc = "cleanup" /\ ex'[f].pc = "persist") =>
                    /\ lastInfo' = EmptyStore
                    /\ \A t \in Depends(ex[e]) : ~TableExists(store', t)
              /\ (ex[f].pc = "gather" /\ ex'[f].pc = "combine") =>
                    LET sources == SourceRows(ex'[f])
                    IN  /\ DOMAIN lastInfo' = Depends(ex[f])
                        /\ \A i \in DOMAIN sources :
                              TableRows(store', TempTableName(sources[i].alias))
                                  = sources[i].rows]_vars

\* an execution has its combination statement, written over a table of its
\* own plan, and the other execution's cleanup has removed that table
C20_Witness ==
    \E e \in Executions : \E f \in Executions \ {e} :
        /\ ex[e].pc = "planned"
        /\ ex[e].combination_sql[1] \in Depends(ex[e])
        /\ ~TableExists(store, ex[e].combination_sql[1])
        /\ ex[f].pc \in {"persist", "done"}

\* an execution awaits its combination and the cached info is the other's:
\* it lists a table that is not of this execution's plan
C20_WitnessReplaced ==
    \E e \in Executions : \E f \in Executions \ {e} :
        /\ ex[e].pc = "combine"
        /\ ex[f].pc = "combine"
        /\ DOMAIN lastInfo # Depends(ex[e])

\* C21: a report generation that creates a session table gives it a name no
\* existing session table has, so that no earlier table of the session is
\* dropped and replaced, also while the background save of the previous
\* generation is still pending.
C21_FreshInteractionNumber ==
    [][(ex.pc = "persist" /\ ex'.pc = "done" /\ ex'.created # NoName) =>
           ~TableExists(store, ex'.created)]_vars

\* C22: in the parallel branch, a step of execute_query_plan that raises its
\* error, returns, or changes the scratch store is taken only when every task
\* of the batch has returned or raised; until then the execution stays in the
\* gather and the tasks in flight go on.
C22_InspectsAfterAllTasks ==
    [][(ex.pc = "gather" /\ Len(ex.plan.sql) <= 1
            /\ (ex'.pc # "gather" \/ store' # store \/ lastInfo' # lastInfo)) =>
           DOMAIN ex.done = DOMAIN Tasks(ex.plan)]_vars

\* a parallel batch failed on its relational query while its tool call was in
\* flight, and the error was raised after the tool call had finished as well
C22_Witness ==
    /\ ex.pc = "failed" /\ ex.stage = "execute"
    /\ Len(ex.plan.sql) = 1 /\ Len(ex.plan.mcp) = 1
    /\ ex.done[1].raised
    /\ ex.plan.mcp[1].mcp \in McpConfigs
    /\ 2 \in DOMAIN ex.done

\* C23: a report generation that completes goes on to save its result
\* straight from execute_query_plan when the plan has no combination, and
\* through one call of cleanup_temp_tables, made after the combination query
\* has returned, when it has one.
C23_CleanupOnceAfterCombination ==
    [][(ex.pc # "persist" /\ ex'.pc = "persist") =>
           IF ex.plan.comb THEN ex.pc = "cleanup" ELSE ex.pc = "gather"]_vars

\* C24: when SessionManager.delete_session(s) has completed, the scratch
\* store holds no session table of s: list_session_temp_tables(s) is empty.
C24_DeleteSessionDropsTables ==
    (ret.op = "delete_session") =>
        /\ list_session_temp_tables(store, ret.session) = <<>>
        /\ \A k \in DOMAIN store : store[k].session # ret.session

\* C25: in the sequential branch, when sub-query i has finished, a table of
\* the scratch store named by its alias, if there is one, holds exactly the
\* rows sub-query i returned in this execution, and none left by an earlier
\* execution.  The aliases of the plan are taken to differ ignoring case.
C25_AliasTableHoldsOwnRows ==
    [][(/\ ex.pc = "seq" /\ ex'.pc \in {"seq", "gather"} /\ ex'.i = ex.i + 1
        /\ \A j, k \in DOMAIN ex.plan.sql :
              j # k => Fold(ex.plan.sql[j].alias) # Fold(ex.plan.sql[k].alias)) =>
           LET source_alias == ex.plan.sql[ex'.i].alias
           IN  TableExists(store', source_alias) =>
                   TableRows(store', source_alias) = ex'.db_results[ex'.i].rows]_vars

\* C26: for each MCP server identifier at most one session is open at a
\* time, and it is the cached one, also while several calls for the
\* identifier are in flight.
C26_OneHandlePerSource ==
    /\ \A g, h \in connections.open : g.mcp = h.mcp => g = h
    /\ \A h \in connections.open :
          h.mcp \in DOMAIN connections.cached /\ connections.cached[h.mcp] = h

\* C27: ReuseDataExecutor hands the request to FullQueryExecutor whenever the
\* last interaction of the session names no table or names a table the scratch
\* store does not hold; it builds its report from the rows and columns of the
\* named table only when that table exists.
C27_ReuseFallsBack ==
    [][(ex.pc = "idle" /\ ex'.pc # "idle" /\ "reused" \in DOMAIN ex') =>
           IF ex'.reused = NoName \/ ~TableExists(store, ex'.reused)
           THEN ex'.path = "full_query" /\ ex'.pc \in {"seq", "gather"}
           ELSE /\ ex'.pc = "reused"
                /\ ex'.out = ResultSet(TableRows(store, ex'.reused),
                                       store[Fold(ex'.reused)].cols)]_vars

\* the last interaction named a table that is gone, and the request is being
\* served by FullQueryExecutor
C27_Witness ==
    /\ ex.pc \in {"seq", "gather"}
    /\ "reused" \in DOMAIN ex
    /\ ex.reused # NoName
    /\ ~TableExists(store, ex.reused)
    /\ ex.started = 0 /\ ex.i = 0

\* C28: the column types get_combined_metadata reports for a combined result
\* are the types _create_table_from_data declares for a table made from the
\* same rows and columns, including TEXT for a column whose values are all
\* None and for every column of a result without rows.
C28_MetadataTypesAreSchemaTypes ==
    (ret.op = "return" /\ ret.fn = "get_combined_metadata") =>
        LET table_name == TempTableName(AliasU)
            made == create_table_from_data(EmptyStore, table_name,
                                           ret.arg.rows, ret.arg.cols)
        IN  /\ ~made.raised
            /\ ret.val.column_types = made.store[Fold(table_name)].types

C30_EmptyDataLeavesStore ==
    [][/\ \A s \in SessionIds, n \in 1..MaxCallerInteraction :
            LET r == create_session_temp_table(store, s, n, <<>>, RowKeys, <<>>)
            IN  r.none /\ ~r.raised /\ r.name = NoName /\ r.store = store
       /\ (ret'.op = "create_session_temp_table" /\ ret'.none) =>
              (store' = store /\ ret'.name = NoName /\ ~ret'.raised)]_vars

\* a call without rows has returned None while the table of each interaction
\* number of that session exists
C30_Witness ==
    /\ ret.op = "create_session_temp_table" /\ ret.none
    /\ \A n \in 1..MaxCallerInteraction :
          /\ TableExists(store, SessionTableName(ret.session, n))
          /\ store[Fold(SessionTableName(ret.session, n))].rows # <<>>

====
